---- MODULE Spec2Model ----
(***************************************************************************)
(* A model of the `ignore-me` term interner (src/src/term.rs) and of the   *)
(* asset index built on it (src/src/assets.rs).                            *)
(*                                                                         *)
(* Text is a sequence of one-character strings.  The Lexicon's arena is    *)
(* modelled with explicit allocations: a String is (ptr, cap, len), the    *)
(* heap maps an address to the bytes written there and to whether the      *)
(* allocation is still live, and a `&'static str` is a view (ptr, start,   *)
(* len) into the heap.                                                     *)
(***************************************************************************)
EXTENDS Integers, Sequences, FiniteSets, TLC

\* ------------------------------------------------------------------ bounds
\* number of Term::intern and Term::lookup calls over all threads
MaxCalls == 3

\* ------------------------------------------------------------------ text
\* the strings a caller may pass: empty, white space only, two spellings
\* that differ in case only, padded on either side and on both, and a longer
\* one
Strings ==
    {<<>>, <<" ">>, <<"a">>, <<"A">>, <<" ", "a">>, <<"a", " ">>,
     <<" ", "A", " ">>, <<"a", "A">>}

\* char::is_whitespace, restricted to the ASCII white space characters
IsWhitespace(c) == c \in {" ", "\t", "\n", "\r", "\f"}

UpperCase == <<"A", "B", "C", "D", "E", "F", "G", "H", "I", "J", "K", "L", "M",
               "N", "O", "P", "Q", "R", "S", "T", "U", "V", "W", "X", "Y", "Z">>
LowerCase == <<"a", "b", "c", "d", "e", "f", "g", "h", "i", "j", "k", "l", "m",
               "n", "o", "p", "q", "r", "s", "t", "u", "v", "w", "x", "y", "z">>

\* u8::to_ascii_lowercase
ToAsciiLowercase(c) ==
    IF \E i \in DOMAIN UpperCase : UpperCase[i] = c
    THEN LowerCase[CHOOSE i \in DOMAIN UpperCase : UpperCase[i] = c]
    ELSE c

\* str::trim_start
RECURSIVE TrimStart(_)
TrimStart(s) ==
    IF s # <<>> /\ IsWhitespace(Head(s)) THEN TrimStart(Tail(s)) ELSE s

\* str::trim_end
RECURSIVE TrimEnd(_)
TrimEnd(s) ==
    IF s # <<>> /\ IsWhitespace(s[Len(s)])
    THEN TrimEnd(SubSeq(s, 1, Len(s) - 1))
    ELSE s

\* str::trim
Trim(s) == TrimEnd(TrimStart(s))

\* str::eq_ignore_ascii_case: same length, bytes equal after ASCII lowering
EqIgnoreAsciiCase(a, b) ==
    /\ Len(a) = Len(b)
    /\ \A i \in 1..Len(a) : ToAsciiLowercase(a[i]) = ToAsciiLowercase(b[i])

\* a string with every ASCII letter lowered
Fold(s) == [k \in DOMAIN s |-> ToAsciiLowercase(s[k])]

\* ------------------------------------------------------------------ heap
\* usize::next_power_of_two
RECURSIVE PowerOfTwoFrom(_, _)
PowerOfTwoFrom(p, n) == IF p >= n THEN p ELSE PowerOfTwoFrom(2 * p, n)

\* a capacity that is just what is asked for
ExactFit(n) == n

NextPowerOfTwo(n) == PowerOfTwoFrom(1, n)

Max(a, b) == IF a >= b THEN a ELSE b

\* the address of a String that owns no allocation
Dangling == 0

\* String::default: no allocation, capacity 0
EmptyString == [ptr |-> Dangling, cap |-> 0, len |-> 0]

\* String::with_capacity(n) on heap h: a fresh allocation unless n = 0
StringWithCapacity(h, n) ==
    IF n = 0
    THEN [heap |-> h, string |-> EmptyString]
    ELSE [heap |-> Append(h, [bytes |-> <<>>, live |-> TRUE]),
          string |-> [ptr |-> Len(h) + 1, cap |-> n, len |-> 0]]

\* String::push_str: writes in place while the text fits the capacity;
\* otherwise the allocation grows (amortised doubling) and moves, which
\* frees the old address.
PushStr(h, str, s) ==
    IF str.len + Len(s) <= str.cap
    THEN [heap |-> IF Len(s) = 0 THEN h
                   ELSE [h EXCEPT ![str.ptr].bytes = @ \o s],
          string |-> [str EXCEPT !.len = @ + Len(s)]]
    ELSE LET cap == Max(8, Max(2 * str.cap, str.len + Len(s)))
             old == IF str.ptr = Dangling THEN <<>> ELSE h[str.ptr].bytes
             h1  == IF str.ptr = Dangling THEN h
                    ELSE [h EXCEPT ![str.ptr].live = FALSE]
         IN  [heap |-> Append(h1, [bytes |-> old \o s, live |-> TRUE]),
              string |-> [ptr |-> Len(h1) + 1, cap |-> cap,
                          len |-> str.len + Len(s)]]

\* what a dangling view reads as when the interner compares it
Garbage == <<"?">>

\* a view is valid when it is empty or lies within a live allocation
ValidView(h, v) ==
    \/ v.len = 0
    \/ /\ v.ptr \in DOMAIN h
       /\ h[v.ptr].live
       /\ v.start + v.len <= Len(h[v.ptr].bytes)

\* the text a `&'static str` view denotes
Deref(h, v) ==
    IF v.len = 0 THEN <<>>
    ELSE IF ValidView(h, v)
         THEN SubSeq(h[v.ptr].bytes, v.start + 1, v.start + v.len)
         ELSE Garbage

\* the outcomes of a caller reading through a view (any text when dangling)
DerefOutcomes(h, v) ==
    IF ValidView(h, v) THEN {Deref(h, v)} ELSE Strings \cup {Garbage}

\* ------------------------------------------------------------------ Lexicon
\* Lexicon::default: empty map and vec, `buf` an unallocated String, no
\* retained buffers.  map is a function from views to identities (a
\* HashMap<&'static str, Term>), vec a sequence of views.
LexiconDefault ==
    [map |-> <<>>, vec |-> <<>>, buf |-> EmptyString, all |-> <<>>,
     heap |-> <<>>]

NoTerm == -1

\* a lookup that never finds the string
MapGetMiss(lex, s) == NoTerm

\* HashMap::get on the map: keys compare by the text they denote
MapGet(lex, s) ==
    LET hits == {k \in DOMAIN lex.map : Deref(lex.heap, k) = s}
    IN  IF hits = {} THEN NoTerm ELSE lex.map[CHOOSE k \in hits : TRUE]

\* HashMap::insert: an equal key keeps its place and takes the new value
MapInsert(lex, v, id) ==
    LET hits == {k \in DOMAIN lex.map :
                    Deref(lex.heap, k) = Deref(lex.heap, v)}
    IN  IF hits = {}
        THEN [lex EXCEPT !.map = v :> id @@ lex.map]
        ELSE [lex EXCEPT !.map = [k \in DOMAIN lex.map |->
                                    IF k \in hits THEN id ELSE lex.map[k]]]

\* Vec::push on vec
VecPush(lex, v) == [lex EXCEPT !.vec = Append(@, v)]

\* an alloc that appends to buf without the capacity check
AllocInPlace(lex, s) ==
    LET start  == lex.buf.len
        pushed == PushStr(lex.heap, lex.buf, s)
    IN  [lex |-> [lex EXCEPT !.heap = pushed.heap, !.buf = pushed.string],
         view |-> [ptr |-> pushed.string.ptr, start |-> start,
                   len |-> pushed.string.len - start]]

\* Lexicon::alloc: replaces buf by a larger empty buffer when the string
\* does not fit (the old buffer moves to `all`), appends the string to buf
\* and returns the view of the appended bytes.
Alloc(lex, s) ==
    LET cap    == lex.buf.cap
        grow   == cap < lex.buf.len + Len(s)
        newCap == NextPowerOfTwo(Max(cap, Len(s)) + 1)
        fresh  == StringWithCapacity(lex.heap, newCap)
        lex1   == IF grow
                  THEN [lex EXCEPT !.heap = fresh.heap,
                                   !.buf = fresh.string,
                                   !.all = Append(@, lex.buf)]
                  ELSE lex
        start  == lex1.buf.len
        pushed == PushStr(lex1.heap, lex1.buf, s)
    IN  [lex |-> [lex1 EXCEPT !.heap = pushed.heap, !.buf = pushed.string],
         view |-> [ptr |-> pushed.string.ptr, start |-> start,
                   len |-> pushed.string.len - start]]

\* the number of strings registered in the Lexicon
Registered(lex) == Cardinality(DOMAIN lex.map)

\* identities counted from one
NextIdFromOne(lex) == Registered(lex) + 1

\* the identity Lexicon::intern gives the next string: map.len() as u32
\* (the cast truncates only from 2^32 registered strings on)
NextId(lex) == Registered(lex)

\* Lexicon::intern, whole: the identity of a registered string, else
\* alloc, map.insert and vec.push under the next identity
LexIntern(lex, s) ==
    IF MapGet(lex, s) # NoTerm
    THEN [lex |-> lex, id |-> MapGet(lex, s)]
    ELSE LET a  == Alloc(lex, s)
             id == NextId(a.lex)
         IN  [lex |-> VecPush(MapInsert(a.lex, a.view, id), a.view),
              id |-> id]

\* a lookup that indexes vec from its end
LexLookupReversed(lex, id) == lex.vec[Len(lex.vec) - id]

\* Lexicon::lookup: vec[kw.as_usize()]
LexLookup(lex, id) == lex.vec[id + 1]

\* the text of an issued Term (Term::lookup followed by the caller's read)
TermText(lex, id) == Deref(lex.heap, LexLookup(lex, id))

\* a comparison that forgets the case folding
TermEqStrExact(lex, id, s) == TermText(lex, id) = Trim(s)

\* `impl PartialEq<&str> for Term`: the Term's text against the trimmed
\* candidate, ignoring ASCII case
TermEqStr(lex, id, s) == EqIgnoreAsciiCase(TermText(lex, id), Trim(s))

\* ------------------------------------------------------------------ state
VARIABLES
    lexicon,    \* the Lexicon behind TERMS: map, vec, buf, all (and the heap)
    mutex,      \* the Mutex of TERMS: owner (0 when free) and poison flag
    pc,         \* per thread: its position in Term::intern / Term::lookup
    local,      \* per thread: the argument and locals of the call in progress
    hist,       \* the completed Term::intern calls, in the order they returned
    calls,      \* the number of Term::intern and Term::lookup calls made
    corpus,     \* the directory entries under the three asset directories
    assets,     \* AssetDB.assets: AssetName -> Asset
    dbpc,       \* where the AssetDB is in its life
    found,      \* what the last query on the AssetDB returned
    hfnames,    \* handle_for's `names` once it runs
    walked      \* the entries in the order walk_assets read them

vars == <<lexicon, mutex, pc, local, hist, calls, corpus, assets, dbpc, found,
          hfnames, walked>>

\* the state of the threads that share the interner
thvars == <<mutex, pc, local, hist, calls>>

\* the state of the asset index
dbvars == <<corpus, assets, dbpc, found, hfnames, walked>>

\* two threads share the interner
Threads == {1, 2}

NoView == [ptr |-> Dangling, start |-> 0, len |-> 0]
NoLocal == [arg |-> <<>>, term |-> NoTerm, view |-> NoView, id |-> NoTerm,
            before |-> 0, from |-> NoTerm, text |-> <<>>, partial |-> FALSE]

\* the Terms callers hold: those some Term::intern call returned
Issued == {hist[i].ret : i \in DOMAIN hist}

\* no query made yet
NoFound == [op |-> "none", query |-> <<>>, at |-> "start", some |-> FALSE,
            asset |-> <<>>, hits |-> {}, list |-> <<>>]

Init ==
    /\ lexicon = LexiconDefault
    /\ mutex = [owner |-> 0, poisoned |-> FALSE]
    /\ pc = [t \in Threads |-> "idle"]
    /\ local = [t \in Threads |-> NoLocal]
    /\ hist = <<>>
    /\ calls = 0
    /\ corpus = {}
    /\ assets = <<>>
    /\ dbpc = "start"
    /\ found = NoFound
    /\ hfnames = <<>>
    /\ walked = <<>>

\* a lock that excludes nobody
CanLockAlways(m) == TRUE

\* Mutex::lock returns once no other thread holds the guard
CanLock(m) == m.owner = 0

\* a lock whose poison is ignored
LockOkIgnorePoison(m) == TRUE

\* `match TERMS.lock()`: Ok(guard) unless the Mutex is poisoned
LockOk(m) == ~m.poisoned

\* an intern that forgets to trim
InternArgRaw(s) == s

\* the argument Term::intern hands to Lexicon::intern: s.as_ref().trim()
InternArg(s) == Trim(s)

\* a thread calls Term::intern(s) and waits for the lock
CallIntern(t, s) ==
    /\ UNCHANGED dbvars
    /\ pc[t] \in {"idle", "lookup_done"}
    /\ calls < MaxCalls
    /\ calls' = calls + 1
    /\ pc' = [pc EXCEPT ![t] = "intern_lock"]
    /\ local' = [local EXCEPT ![t] = [NoLocal EXCEPT !.arg = s]]
    /\ UNCHANGED <<lexicon, mutex, hist>>

\* a thread calls Term::intern on the text its Term::lookup just returned
CallInternOfLookup(t) ==
    /\ UNCHANGED dbvars
    /\ pc[t] = "lookup_done"
    /\ calls < MaxCalls
    /\ calls' = calls + 1
    /\ pc' = [pc EXCEPT ![t] = "intern_lock"]
    /\ local' = [local EXCEPT ![t] = [NoLocal EXCEPT !.arg = local[t].text,
                                                     !.from = local[t].term]]
    /\ UNCHANGED <<lexicon, mutex, hist>>

\* the record of a Term::intern call that returns id
Returned(t, id, before, after) ==
    Append(hist, [arg |-> local[t].arg, ret |-> id, before |-> before,
                  after |-> after, from |-> local[t].from])

\* Term::intern, `TERMS.lock()` returning Ok(guard), and Lexicon::intern,
\* `self.map.get(string)`: a hit returns the identity (and the guard is
\* dropped), a miss goes on to alloc under the guard
InternLock(t) ==
    /\ UNCHANGED dbvars
    /\ pc[t] = "intern_lock"
    /\ CanLock(mutex)
    /\ LockOk(mutex)
    /\ LET id == MapGet(lexicon, InternArg(local[t].arg))
           n  == Registered(lexicon)
       IN  IF id # NoTerm
           THEN /\ hist' = Returned(t, id, n, n)
                /\ pc' = [pc EXCEPT ![t] = "idle"]
                /\ local' = [local EXCEPT ![t] = NoLocal]
                /\ mutex' = mutex
           ELSE /\ hist' = hist
                /\ pc' = [pc EXCEPT ![t] = "intern_alloc"]
                /\ local' = [local EXCEPT ![t].before = n]
                /\ mutex' = [mutex EXCEPT !.owner = t]
    /\ UNCHANGED <<lexicon, calls>>

\* Lexicon::intern, `self.alloc(string)`
InternAlloc(t) ==
    /\ UNCHANGED dbvars
    /\ pc[t] = "intern_alloc"
    /\ LET a == Alloc(lexicon, InternArg(local[t].arg))
       IN  /\ lexicon' = a.lex
           /\ local' = [local EXCEPT ![t].view = a.view]
    /\ pc' = [pc EXCEPT ![t] = "intern_insert"]
    /\ UNCHANGED <<mutex, hist, calls>>

\* Lexicon::intern, `id = Term(self.map.len() as u32)` and `self.map.insert`
InternInsert(t) ==
    /\ UNCHANGED dbvars
    /\ pc[t] = "intern_insert"
    /\ LET id == NextId(lexicon)
       IN  /\ lexicon' = MapInsert(lexicon, local[t].view, id)
           /\ local' = [local EXCEPT ![t].id = id]
    /\ pc' = [pc EXCEPT ![t] = "intern_push"]
    /\ UNCHANGED <<mutex, hist, calls>>

\* Lexicon::intern, `self.vec.push(string)`, and the return of the
\* identity, which drops the guard
InternPush(t) ==
    /\ UNCHANGED dbvars
    /\ pc[t] = "intern_push"
    /\ lexicon' = VecPush(lexicon, local[t].view)
    /\ mutex' = [mutex EXCEPT !.owner = IF @ = t THEN 0 ELSE @]
    /\ hist' = Returned(t, local[t].id, local[t].before, Registered(lexicon'))
    /\ pc' = [pc EXCEPT ![t] = "idle"]
    /\ local' = [local EXCEPT ![t] = NoLocal]
    /\ UNCHANGED calls

\* an allocating call of Lexicon::intern (String::with_capacity,
\* HashMap::insert, Vec::push) panics: the thread unwinds while it holds the
\* guard, which poisons the Mutex and releases it
HolderPanic(t) ==
    /\ UNCHANGED dbvars
    /\ pc[t] \in {"intern_alloc", "intern_insert", "intern_push"}
    /\ mutex' = [owner |-> IF mutex.owner = t THEN 0 ELSE mutex.owner,
                 poisoned |-> TRUE]
    /\ pc' = [pc EXCEPT ![t] = "panicked"]
    /\ local' = [local EXCEPT ![t] = NoLocal]
    /\ UNCHANGED <<lexicon, hist, calls>>

\* Term::intern / Term::lookup, `TERMS.lock()` returning Err(e): panic!("{e}")
LockPoisoned(t) ==
    /\ UNCHANGED dbvars
    /\ pc[t] \in {"intern_lock", "lookup_lock"}
    /\ CanLock(mutex)
    /\ ~LockOk(mutex)
    /\ pc' = [pc EXCEPT ![t] = "panicked"]
    /\ local' = [local EXCEPT ![t] = NoLocal]
    /\ UNCHANGED <<lexicon, mutex, hist, calls>>

\* a thread calls Term::lookup on a Term it was issued and waits for the lock
CallLookup(t, id) ==
    /\ UNCHANGED dbvars
    /\ pc[t] \in {"idle", "lookup_done"}
    /\ id \in Issued
    /\ calls < MaxCalls
    /\ calls' = calls + 1
    /\ pc' = [pc EXCEPT ![t] = "lookup_lock"]
    /\ local' = [local EXCEPT ![t] = [NoLocal EXCEPT !.term = id]]
    /\ UNCHANGED <<lexicon, mutex, hist>>

\* Term::lookup: `TERMS.lock()` returning Ok(guard), `guard.lookup(self)`
\* reading vec[id] (an index out of bounds panics under the guard), and the
\* return of the view, which drops the guard.  `partial` notes whether the
\* read met a map entry that vec does not have yet.
LookupRead(t) ==
    /\ UNCHANGED dbvars
    /\ pc[t] = "lookup_lock"
    /\ CanLock(mutex)
    /\ LockOk(mutex)
    /\ IF local[t].term + 1 \in DOMAIN lexicon.vec
       THEN /\ local' = [local EXCEPT
                           ![t].view = LexLookup(lexicon, local[t].term),
                           ![t].partial =
                               Len(lexicon.vec) # Registered(lexicon)]
            /\ pc' = [pc EXCEPT ![t] = "lookup_use"]
            /\ mutex' = mutex
       ELSE /\ local' = [local EXCEPT ![t] = NoLocal]
            /\ pc' = [pc EXCEPT ![t] = "panicked"]
            /\ mutex' = [mutex EXCEPT !.poisoned = TRUE]
    /\ UNCHANGED <<lexicon, hist, calls>>

\* the caller reads the text behind the `&str` Term::lookup returned, after
\* the guard is gone
LookupUse(t) ==
    /\ UNCHANGED dbvars
    /\ pc[t] = "lookup_use"
    /\ \E text \in DerefOutcomes(lexicon.heap, local[t].view) :
          local' = [local EXCEPT ![t].text = text]
    /\ pc' = [pc EXCEPT ![t] = "lookup_done"]
    /\ UNCHANGED <<lexicon, mutex, hist, calls>>

Next ==
    \E t \in Threads :
        \/ \E s \in Strings : CallIntern(t, s)
        \/ CallInternOfLookup(t)
        \/ InternLock(t)
        \/ InternAlloc(t)
        \/ InternInsert(t)
        \/ InternPush(t)
        \/ HolderPanic(t)
        \/ LockPoisoned(t)
        \/ \E id \in Issued : CallLookup(t, id)
        \/ LookupRead(t)
        \/ LookupUse(t)

Spec == Init /\ [][Next]_vars

\* ------------------------------------------------------------------ assets
\* bound on the directory entries of a corpus
MaxFiles == 3

\* the template suffix, one token of a file name
Suffix == ".gitignore"

\* enum Flag
Flags == {"Default", "Community", "Global"}

\* the order walk_assets takes the directories in: `paths` is
\* [Default, Community, Global] and is popped from its end
FlagRank(flag) ==
    CASE flag = "Global" -> 1 [] flag = "Community" -> 2 [] flag = "Default" -> 3

\* the directory entries a corpus is drawn from: two names that differ in
\* case, one name in two categories, a doubled suffix, a padded name, a
\* file without the suffix and a directory with it
DirEntries ==
    {[name |-> <<"a", Suffix>>, flag |-> "Default", is_file |-> TRUE],
     [name |-> <<"A", Suffix>>, flag |-> "Default", is_file |-> TRUE],
     [name |-> <<"a", Suffix>>, flag |-> "Community", is_file |-> TRUE],
     [name |-> <<"a", Suffix, Suffix>>, flag |-> "Default", is_file |-> TRUE],
     [name |-> <<" ", "a", Suffix>>, flag |-> "Global", is_file |-> TRUE],
     [name |-> <<"b", Suffix>>, flag |-> "Global", is_file |-> TRUE],
     [name |-> <<"b">>, flag |-> "Default", is_file |-> TRUE],
     [name |-> <<"b", Suffix>>, flag |-> "Community", is_file |-> FALSE]}

\* the corpora: up to MaxFiles entries
Corpora == {c \in SUBSET DirEntries : Cardinality(c) <= MaxFiles}

\* is_gitignore_file: Path::extension is the text after the last '.', and
\* there is none when nothing precedes that '.'
IsGitignoreFile(name) == Len(name) >= 2 /\ name[Len(name)] = Suffix

\* str::trim_end_matches(".gitignore"): strips the suffix as often as it
\* is there
RECURSIVE TrimEndMatches(_)
TrimEndMatches(name) ==
    IF name # <<>> /\ name[Len(name)] = Suffix
    THEN TrimEndMatches(SubSeq(name, 1, Len(name) - 1))
    ELSE name

\* a file name without its last token
TrimEnd1(name) == SubSeq(name, 1, Len(name) - 1)

\* Term::intern as one call of a single thread: lock, Lexicon::intern, unlock
TermIntern(lex, s) == LexIntern(lex, InternArg(s))

\* Keyword::intern_iter(..).collect(): interns the strings in order
RECURSIVE InternIter(_, _)
InternIter(lex, strs) ==
    IF strs = <<>> THEN [lex |-> lex, ids |-> <<>>]
    ELSE LET r    == TermIntern(lex, Head(strs))
             rest == InternIter(r.lex, Tail(strs))
         IN  [lex |-> rest.lex, ids |-> <<r.id>> \o rest.ids]

\* a template seeded without its name
SeedNone(id) == <<>>

\* walk_assets, `keywords: vec![asset_name.as_keyword()]`
SeedKeywords(id) == <<id>>

\* HashMap::insert on assets: an equal key takes the new value
AssetsInsert(db, key, asset) ==
    [k \in DOMAIN db \cup {key} |-> IF k = key THEN asset ELSE db[k]]

\* walk_assets, one directory entry: a file with the suffix becomes an
\* Asset under AssetName(name without the suffix, flag), its keywords the
\* interned name
WalkEntry(st, e) ==
    IF e.is_file /\ IsGitignoreFile(e.name)
    THEN LET key == [name |-> TrimEndMatches(e.name), flag |-> e.flag]
             r   == TermIntern(st.lex, key.name)
             asset == [keywords |-> SeedKeywords(r.id),
                       git_ignore |-> [name |-> e.name, flag |-> e.flag]]
         IN  [lex |-> r.lex, db |-> AssetsInsert(st.db, key, asset)]
    ELSE st

\* walk_assets over the entries in the order the directories yield them
RECURSIVE WalkAll(_, _)
WalkAll(st, order) ==
    IF order = <<>> THEN st
    ELSE WalkAll(WalkEntry(st, Head(order)), Tail(order))

\* the orders fs::read_dir may yield a corpus in: any order within a
\* directory, the directories in walk_assets' order
ReadDirOrders(c) ==
    {o \in [1..Cardinality(c) -> c] :
        /\ \A i, j \in DOMAIN o : i # j => o[i] # o[j]
        /\ \A i, j \in DOMAIN o :
               i < j => FlagRank(o[i].flag) <= FlagRank(o[j].flag)}

\* a name comparison that minds the case
NameMatchesExact(key, q) == key.name = q

\* AssetName's name against a query: str::eq_ignore_ascii_case
NameMatches(key, q) == EqIgnoreAsciiCase(key.name, q)

\* the (names, keywords) entries decoration is run with
TableEntries ==
    {[names |-> << <<"a">> >>, kws |-> << <<"x">>, <<"b">> >>],
     [names |-> << <<"A">>, <<"b">> >>, kws |-> << <<"b">>, <<"X">> >>]}

\* the names get_by_name is asked for
Queries == {<<"a">>, <<"A">>, <<"b">>, <<"x">>, <<" ", "a">>, <<"c">>}

\* an add_keyword that pushes whatever it is given
AddKeywordAlways(kws, kw) == Append(kws, kw)

\* Asset::add_keyword: pushes the keyword unless it is there
AddKeyword(kws, kw) ==
    IF \E i \in DOMAIN kws : kws[i] = kw THEN kws ELSE Append(kws, kw)

\* an add_keywords that assigns the slice
AddKeywordsReplace(kws, ids) == ids

\* Asset::add_keywords
RECURSIVE AddKeywords(_, _)
AddKeywords(kws, ids) ==
    IF ids = <<>> THEN kws
    ELSE AddKeywords(AddKeyword(kws, Head(ids)), Tail(ids))

\* keywords added through get_mut_by_name: for each name, to one Asset
\* whose name matches
RECURSIVE AddKeywordsByFirstName(_, _, _)
AddKeywordsByFirstName(db, names, ids) ==
    IF names = <<>> THEN db
    ELSE LET hits == {k \in DOMAIN db : NameMatches(k, Head(names))}
         IN  AddKeywordsByFirstName(
                 [k \in DOMAIN db |->
                     IF hits # {} /\ k = (CHOOSE h \in hits : TRUE)
                     THEN [db[k] EXCEPT !.keywords = AddKeywords(@, ids)]
                     ELSE db[k]],
                 Tail(names), ids)

\* AssetDB::add_keywords_for_asset_by_names: for each name, every Asset
\* whose name matches gets the keywords (filter_mut_by_name)
RECURSIVE AddKeywordsByNames(_, _, _)
AddKeywordsByNames(db, names, ids) ==
    IF names = <<>> THEN db
    ELSE AddKeywordsByNames(
             [k \in DOMAIN db |->
                 IF NameMatches(k, Head(names))
                 THEN [db[k] EXCEPT !.keywords = AddKeywords(@, ids)]
                 ELSE db[k]],
             Tail(names), ids)

\* AssetDecorator::run_with on an index and the interner: the keywords
\* are interned first, then added to the Assets the names match
RunWithOn(st, e) ==
    LET r == InternIter(st.lex, e.kws)
    IN  [lex |-> r.lex, db |-> AddKeywordsByNames(st.db, e.names, r.ids)]

\* the entries in the order decorate_all runs them
Table ==
    << [names |-> << <<"a">> >>, kws |-> << <<"x">>, <<"b">> >>],
       [names |-> << <<"A">>, <<"b">> >>, kws |-> << <<"b">>, <<"X">> >>] >>

\* a chain of run_with calls
RECURSIVE RunTable(_, _)
RunTable(st, table) ==
    IF table = <<>> THEN st
    ELSE RunTable(RunWithOn(st, Head(table)), Tail(table))

\* the corpus on disk when the program starts
InitDB ==
    /\ lexicon = LexiconDefault
    /\ mutex = [owner |-> 0, poisoned |-> FALSE]
    /\ pc = [t \in Threads |-> "idle"]
    /\ local = [t \in Threads |-> NoLocal]
    /\ hist = <<>>
    /\ calls = 0
    /\ corpus \in Corpora
    /\ assets = <<>>
    /\ dbpc = "start"
    /\ found = NoFound
    /\ hfnames = <<>>
    /\ walked = <<>>

\* walk_assets (AssetDB::new, AssetDB::default)
WalkAssets ==
    /\ dbpc = "start"
    /\ \E order \in ReadDirOrders(corpus) :
          LET st == WalkAll([lex |-> lexicon, db |-> <<>>], order)
          IN  /\ lexicon' = st.lex
              /\ assets' = st.db
              /\ walked' = order
    /\ dbpc' = "discovered"
    /\ UNCHANGED <<corpus, found, hfnames>>
    /\ UNCHANGED thvars

\* the states of an AssetDB that exists and is not inside handle_for
Ready == {"discovered", "decorated", "decorated_all", "redecorated"}

\* AssetDecorator::run_with(names, keywords)
RunWith(e) ==
    /\ dbpc \in Ready
    /\ LET st == RunWithOn([lex |-> lexicon, db |-> assets], e)
       IN  /\ lexicon' = st.lex
           /\ assets' = st.db
    /\ dbpc' = "decorated"
    /\ UNCHANGED <<corpus, found, hfnames, walked>>
    /\ UNCHANGED thvars

\* AssetDB::get_by_name: the first Asset, in the map's iteration order,
\* whose name matches; None when none does
GetByName(q) ==
    /\ dbpc \in Ready
    /\ LET hits == {k \in DOMAIN assets : NameMatches(k, q)}
       IN  IF hits = {}
           THEN found' = [NoFound EXCEPT !.op = "get_by_name", !.query = q,
                                         !.at = dbpc]
           ELSE \E k \in hits :
                    found' = [NoFound EXCEPT !.op = "get_by_name", !.query = q,
                                             !.at = dbpc, !.some = TRUE,
                                             !.asset = assets[k]]
    /\ UNCHANGED <<lexicon, corpus, assets, dbpc, hfnames, walked>>
    /\ UNCHANGED thvars

\* the strings callers make query Terms of
QueryTexts == {<<"x">>, <<"X">>}

\* a caller's Term::from(s), the way a query Term comes to be
InternQuery(s) ==
    /\ dbpc \in Ready
    /\ lexicon' = TermIntern(lexicon, s).lex
    /\ UNCHANGED <<corpus, assets, dbpc, found, hfnames, walked>>
    /\ UNCHANGED thvars

\* the texts of the Terms filter_by_keywords and has_keyword are asked for
FilterTexts == {<<"a">>, <<"x">>, <<"X">>}

\* the Terms with such a text that callers hold
FilterTerms(lex) ==
    {id \in 0..(Len(lex.vec) - 1) : TermText(lex, id) \in FilterTexts}

\* the keyword slices filter_by_keywords is called with: one Term, or
\* two that callers made
FilterQueries(lex) ==
    {<<i>> : i \in FilterTerms(lex)}
        \cup {q \in FilterTerms(lex) \X FilterTerms(lex) :
                  /\ q[1] < q[2]
                  /\ TermText(lex, q[1]) \in QueryTexts
                  /\ TermText(lex, q[2]) \in QueryTexts}

\* the orders a HashMap may yield its keys in
KeyOrders(db) ==
    {o \in [1..Cardinality(DOMAIN db) -> DOMAIN db] :
        \A i, j \in DOMAIN o : i # j => o[i] # o[j]}

\* a filter that interns the name in lower case
OwnKeywordFolded(lex, key) == TermIntern(lex, Fold(key.name))

\* filter_by_keywords, `asset_name.as_keyword()`: the name interned again
OwnKeyword(lex, key) == TermIntern(lex, key.name)

\* Asset::has_keyword: Vec::contains, Keywords compared by identity
HasKeyword(asset, kw) ==
    \E i \in DOMAIN asset.keywords : asset.keywords[i] = kw

\* filter_by_keywords over the Assets in the order the map yields them:
\* an Asset passes when it has any of the keywords or of the one Keyword
\* chained after them, its own name's
RECURSIVE FilterByKeywordsOn(_, _, _, _)
FilterByKeywordsOn(lex, db, order, qs) ==
    IF order = <<>> THEN [lex |-> lex, hits |-> {}]
    ELSE LET key   == Head(order)
             own   == OwnKeyword(lex, key)
             chain == qs \o <<own.id>>
             rest  == FilterByKeywordsOn(own.lex, db, Tail(order), qs)
         IN  [lex |-> rest.lex,
              hits |-> IF \E i \in DOMAIN chain :
                              HasKeyword(db[key], chain[i])
                       THEN {key} \cup rest.hits
                       ELSE rest.hits]

\* AssetDB::filter_by_keywords(keywords), the iterator taken to its end
FilterByKeywords(qs) ==
    /\ dbpc \in Ready
    /\ \E r \in {FilterByKeywordsOn(lexicon, assets, order, qs) :
                     order \in KeyOrders(assets)} :
              /\ lexicon' = r.lex
              /\ found' = [NoFound EXCEPT !.op = "filter_by_keywords",
                                          !.query = qs, !.at = dbpc,
                                          !.some = (r.hits # {}),
                                          !.hits = r.hits]
    /\ UNCHANGED <<corpus, assets, dbpc, hfnames, walked>>
    /\ UNCHANGED thvars

\* Asset::has_keyword on the Asset under a key, with the Term of text s
HasKeywordCall(k, s) ==
    /\ dbpc \in Ready
    /\ \E kw \in FilterTerms(lexicon) :
          /\ TermText(lexicon, kw) = s
          /\ found' = [NoFound EXCEPT
                           !.op = "has_keyword", !.query = <<kw>>,
                           !.at = dbpc,
                           !.some = HasKeyword(assets[k], kw),
                           !.asset = assets[k]]
    /\ UNCHANGED <<lexicon, corpus, assets, dbpc, hfnames, walked>>
    /\ UNCHANGED thvars

\* the texts of the Terms add_keyword is called with
AddTexts == {<<"x">>}

\* get_mut(key) and Asset::add_keyword(kw) on it
AddKeywordCall(k, kw) ==
    /\ dbpc \in Ready
    /\ TermText(lexicon, kw) \in AddTexts
    /\ assets' = [assets EXCEPT ![k].keywords = AddKeyword(@, kw)]
    /\ dbpc' = "decorated"
    /\ UNCHANGED <<lexicon, corpus, found, hfnames, walked>>
    /\ UNCHANGED thvars

\* AssetDB::decorated: AssetDecorator::decorate_all, the whole table;
\* "redecorated" when it comes right after another run of it
DecorateAll ==
    /\ dbpc \in Ready
    /\ LET st == RunTable([lex |-> lexicon, db |-> assets], Table)
       IN  /\ lexicon' = st.lex
           /\ assets' = st.db
    /\ dbpc' = IF dbpc \in {"decorated_all", "redecorated"}
               THEN "redecorated" ELSE "decorated_all"
    /\ UNCHANGED <<corpus, found, hfnames, walked>>
    /\ UNCHANGED thvars

\* the lists of names get_by_names and handle_for are given
NameLists == {<<>>, << <<"a">> >>, << <<"A">>, <<"b">> >>, << <<"c">> >>}

\* what get_by_names may yield: for each name in turn what get_by_name
\* finds, nothing for a name it finds nothing for
RECURSIVE GetByNamesResults(_, _)
GetByNamesResults(db, names) ==
    IF names = <<>> THEN {<<>>}
    ELSE LET hits == {k \in DOMAIN db : NameMatches(k, Head(names))}
             rest == GetByNamesResults(db, Tail(names))
         IN  IF hits = {} THEN rest
             ELSE {<<db[k]>> \o r : k \in hits, r \in rest}

\* AssetDB::get_by_names(names), collected
GetByNames(names) ==
    /\ dbpc \in Ready
    /\ \E r \in GetByNamesResults(assets, names) :
          found' = [NoFound EXCEPT !.op = "get_by_names", !.query = names,
                                   !.at = dbpc, !.some = (r # <<>>),
                                   !.list = r]
    /\ UNCHANGED <<lexicon, corpus, assets, dbpc, hfnames, walked>>
    /\ UNCHANGED thvars

\* AssetDB::get
Get(db, key) ==
    IF key \in DOMAIN db THEN [some |-> TRUE, asset |-> db[key]]
    ELSE [some |-> FALSE, asset |-> <<>>]

\* handle_for, up to `let asset_db = AssetDB::new()`: without names it
\* returns, with names it builds the index by walk_assets
HandleForNew(names) ==
    /\ dbpc = "start"
    /\ hfnames' = names
    /\ IF names = <<>>
       THEN /\ dbpc' = "hf_aborted"
            /\ UNCHANGED <<lexicon, assets, walked>>
       ELSE /\ \E order \in ReadDirOrders(corpus) :
                  LET st == WalkAll([lex |-> lexicon, db |-> <<>>], order)
                  IN  /\ lexicon' = st.lex
                      /\ assets' = st.db
                      /\ walked' = order
            /\ dbpc' = "hf_discovered"
    /\ UNCHANGED <<corpus, found>>
    /\ UNCHANGED thvars

\* handle_for, `asset_db.get_by_names(names).cloned().collect()`: it
\* returns when nothing was found
HandleForQuery ==
    /\ dbpc = "hf_discovered"
    /\ \E r \in GetByNamesResults(assets, hfnames) :
          /\ found' = [NoFound EXCEPT !.op = "get_by_names",
                                      !.query = hfnames, !.at = dbpc,
                                      !.some = (r # <<>>), !.list = r]
          /\ dbpc' = IF r = <<>> THEN "hf_aborted" ELSE "hf_queried"
    /\ UNCHANGED <<lexicon, corpus, assets, hfnames, walked>>
    /\ UNCHANGED thvars

\* handle_for, FileGen::with_assets(assets).write_to_target()?: the file
\* is written or the error is returned
HandleForWrite ==
    /\ dbpc = "hf_queried"
    /\ dbpc' \in {"hf_written", "hf_failed"}
    /\ UNCHANGED <<lexicon, corpus, assets, found, hfnames, walked>>
    /\ UNCHANGED thvars

NextDB ==
    \/ WalkAssets
    \/ \E e \in TableEntries : RunWith(e)
    \/ \E q \in Queries : GetByName(q)

SpecDB == InitDB /\ [][NextDB]_vars

\* the corpora decoration is run on: those made of templates only
DecCorpora ==
    {c \in Corpora : \A e \in c : e.is_file /\ IsGitignoreFile(e.name)}

\* the corpora the queries are run on: no template with a doubled suffix
LibCorpora ==
    {c \in DecCorpora : \A e \in c : ~IsGitignoreFile(TrimEnd1(e.name))}

\* the names get_by_name is asked for next to the other queries
LibQueries == {<<"a">>}

\* the lists of names get_by_names is asked for
LibNameLists == {<< <<"A">>, <<"b">> >>, << <<"c">> >>}

InitLib ==
    /\ lexicon = LexiconDefault
    /\ mutex = [owner |-> 0, poisoned |-> FALSE]
    /\ pc = [t \in Threads |-> "idle"]
    /\ local = [t \in Threads |-> NoLocal]
    /\ hist = <<>>
    /\ calls = 0
    /\ corpus \in LibCorpora
    /\ assets = <<>>
    /\ dbpc = "start"
    /\ found = NoFound
    /\ hfnames = <<>>
    /\ walked = <<>>

\* a program that builds the index, decorates it and queries it
NextLib ==
    \/ WalkAssets
    \/ \E e \in TableEntries : RunWith(e)
    \/ \E s \in QueryTexts : InternQuery(s)
    \/ \E q \in LibQueries : GetByName(q)
    \/ \E names \in LibNameLists : GetByNames(names)
    \/ \E qs \in FilterQueries(lexicon) : FilterByKeywords(qs)
    \/ \E k \in DOMAIN assets : \E s \in QueryTexts :
           HasKeywordCall(k, s)

SpecLib == InitLib /\ [][NextLib]_vars

InitDec ==
    /\ lexicon = LexiconDefault
    /\ mutex = [owner |-> 0, poisoned |-> FALSE]
    /\ pc = [t \in Threads |-> "idle"]
    /\ local = [t \in Threads |-> NoLocal]
    /\ hist = <<>>
    /\ calls = 0
    /\ corpus \in DecCorpora
    /\ assets = <<>>
    /\ dbpc = "start"
    /\ found = NoFound
    /\ hfnames = <<>>
    /\ walked = <<>>

\* a program that builds the index and adds keywords in every way
NextDec ==
    \/ WalkAssets
    \/ \E e \in TableEntries : RunWith(e)
    \/ DecorateAll
    \/ \E k \in DOMAIN assets : \E kw \in FilterTerms(lexicon) :
           AddKeywordCall(k, kw)
    \/ \E q \in LibQueries : GetByName(q)

SpecDec == InitDec /\ [][NextDec]_vars

\* the program: `ignore-me for names`
NextMain ==
    \/ \E names \in NameLists : HandleForNew(names)
    \/ HandleForQuery
    \/ HandleForWrite

SpecMain == InitDB /\ [][NextMain]_vars

\* ------------------------------------------------------------------ C9, C10
\* C9: right after walk_assets every Asset holds exactly one keyword, the
\* Term its AssetName's name interns to (whose text is the name trimmed),
\* in every category and for every corpus.
DiscoverySeeding ==
    dbpc = "discovered" =>
        \A k \in DOMAIN assets :
            /\ Len(assets[k].keywords) = 1
            /\ assets[k].keywords[1] + 1 \in DOMAIN lexicon.vec
            /\ TermText(lexicon, assets[k].keywords[1]) = Trim(k.name)
            /\ TermIntern(lexicon, k.name).id = assets[k].keywords[1]
            /\ TermIntern(lexicon, k.name).lex = lexicon

\* C9's case: discovery found templates in two categories, one of them
\* with a padded name
DiscoverySeedingWitness ==
    /\ dbpc = "discovered"
    /\ \E j, k \in DOMAIN assets : j.flag # k.flag /\ k.name # Trim(k.name)
    /\ Cardinality(DOMAIN assets) >= 2

\* the keys whose name is the query up to ASCII case
SameNameKeys(q) == {k \in DOMAIN assets : Fold(k.name) = Fold(q)}

\* a get_by_name step answers by display name only and changes nothing
GetByNameStep ==
    (found' # found /\ found'.op = "get_by_name") =>
        /\ assets' = assets
        /\ lexicon' = lexicon
        /\ dbpc' = dbpc
        /\ found'.some <=> SameNameKeys(found'.query) # {}
        /\ found'.some =>
               \E k \in SameNameKeys(found'.query) : found'.asset = assets[k]

\* C10: get_by_name(q) returns an Asset exactly when some AssetName's name
\* equals q up to ASCII case, and then one with such a name; a query that
\* only a keyword equals, or nothing, gets None, and no state changes.
GetByNameByNameOnly == [][GetByNameStep]_vars

\* C10's cases: on a decorated index a query that equals a keyword only
\* got None
GetByNameWitness ==
    /\ found.op = "get_by_name"
    /\ found.at = "decorated"
    /\ found.query = <<"x">>
    /\ ~found.some
    /\ \E k \in DOMAIN assets :
           \E i \in DOMAIN assets[k].keywords :
               TermText(lexicon, assets[k].keywords[i]) = found.query

\* C10's other case: a query in another case found the template
GetByNameCaseWitness ==
    /\ found.op = "get_by_name"
    /\ found.some
    /\ TrimEndMatches(found.asset.git_ignore.name) # found.query
    /\ \A k \in DOMAIN assets : k.name # found.query


\* ------------------------------------------------------------------ C1..C8
\* the distinct trimmed strings among the first n completed interns, in
\* the order they first came
RECURSIVE FirstSeen(_)
FirstSeen(n) ==
    IF n = 0 THEN <<>>
    ELSE LET prev == FirstSeen(n - 1)
             s    == Trim(hist[n].arg)
         IN  IF \E k \in DOMAIN prev : prev[k] = s THEN prev
             ELSE Append(prev, s)

IndexOf(seq, x) == CHOOSE k \in DOMAIN seq : seq[k] = x

\* C1: two Term::intern calls in a row with the same string return equal
\* Terms; the second registers nothing and the two together register at
\* most one string, whatever was interned before.
IdempotentIntern ==
    \A i \in DOMAIN hist :
        (i + 1 \in DOMAIN hist /\ hist[i].arg = hist[i + 1].arg) =>
            /\ hist[i + 1].ret = hist[i].ret
            /\ hist[i + 1].after = hist[i + 1].before
            /\ hist[i + 1].before = hist[i].after
            /\ hist[i + 1].after <= hist[i].before + 1

\* C1's case: after an earlier intern, a new string is interned twice in a row
IdempotentInternWitness ==
    \E i \in DOMAIN hist :
        /\ i > 1
        /\ i + 1 \in DOMAIN hist
        /\ hist[i].arg = hist[i + 1].arg
        /\ hist[i].after = hist[i].before + 1

\* C2: the identities issued are 0..n-1 for the n distinct trimmed strings
\* interned so far, in order of first registration (so two Terms are equal
\* exactly when their trimmed strings are), and an issued identity keeps
\* denoting the string it was issued for.
DenseIdentities ==
    LET firsts == FirstSeen(Len(hist))
    IN  /\ \A i \in DOMAIN hist :
               hist[i].ret = IndexOf(firsts, Trim(hist[i].arg)) - 1
        /\ Issued = 0..(Len(firsts) - 1)
        /\ \A id \in Issued :
               /\ id + 1 \in DOMAIN lexicon.vec
               /\ TermText(lexicon, id) = firsts[id + 1]
               /\ MapGet(lexicon, firsts[id + 1]) = id

\* C2's case: three interns, one of them a repeat, the other a second string
DenseIdentitiesWitness ==
    /\ Len(hist) = 3
    /\ \E i, j \in DOMAIN hist : i < j /\ hist[i].ret = hist[j].ret
    /\ \E k \in DOMAIN hist : hist[k].ret = 1

\* C3: Term::intern(s) and Term::intern of s trimmed return the same Term,
\* whose stored text is the trimmed string; white space only and the empty
\* string give the same Term.
TrimInsensitive ==
    \A i \in DOMAIN hist :
        /\ hist[i].ret + 1 \in DOMAIN lexicon.vec
        /\ TermText(lexicon, hist[i].ret) = Trim(hist[i].arg)
        /\ \A j \in DOMAIN hist :
               hist[j].arg = Trim(hist[i].arg) => hist[j].ret = hist[i].ret

\* C3's case: a padded string and its trimmed form were both interned, and
\* so were a white-space-only string and the empty string
TrimInsensitiveWitness ==
    /\ \E i, j \in DOMAIN hist :
           /\ Trim(hist[i].arg) # <<>>
           /\ hist[i].arg # Trim(hist[i].arg)
           /\ hist[j].arg = Trim(hist[i].arg)
    /\ Len(hist) = 3

\* C3's second case: white space only and the empty string
TrimInsensitiveEmptyWitness ==
    \E i, j \in DOMAIN hist :
        hist[i].arg = <<" ">> /\ hist[j].arg = <<>> /\ hist[i].ret = hist[j].ret

\* C4: Term::lookup of an issued Term returns the trimmed text it was first
\* interned from, and interning that text returns the same Term and
\* registers nothing.
RoundTrip ==
    LET firsts == FirstSeen(Len(hist))
    IN  /\ \A t \in Threads :
               pc[t] = "lookup_done" =>
                   /\ local[t].term \in Issued
                   /\ local[t].text = firsts[local[t].term + 1]
        /\ \A i \in DOMAIN hist :
               hist[i].from # NoTerm =>
                   /\ hist[i].ret = hist[i].from
                   /\ hist[i].after = hist[i].before

\* C4's case: the text of a Term was looked up and interned again
RoundTripWitness ==
    \E i \in DOMAIN hist : hist[i].from # NoTerm /\ hist[i].arg # <<>>

\* C5: two strings that differ only in ASCII case get different Terms, each
\* storing its own casing, and each Term compares equal to every raw string
\* that equals its text up to ASCII case and surrounding white space (the
\* comparison locks TERMS, so it returns only while the lock is not poisoned).
CaseSplit ==
    \A i, j \in DOMAIN hist :
        (/\ Trim(hist[i].arg) # Trim(hist[j].arg)
         /\ Fold(Trim(hist[i].arg)) = Fold(Trim(hist[j].arg))) =>
            /\ hist[i].ret # hist[j].ret
            /\ TermText(lexicon, hist[i].ret) = Trim(hist[i].arg)
            /\ ~mutex.poisoned =>
                   \A s \in Strings :
                       Fold(Trim(s)) = Fold(Trim(hist[i].arg)) =>
                           TermEqStr(lexicon, hist[i].ret, s)

\* C5's case: "a" and "A" are both interned and the lock is healthy
CaseSplitWitness ==
    /\ ~mutex.poisoned
    /\ \E i, j \in DOMAIN hist :
           Trim(hist[i].arg) = <<"a">> /\ Trim(hist[j].arg) = <<"A">>

\* the views the Lexicon holds
Views(lex) == {lex.vec[i] : i \in DOMAIN lex.vec} \cup DOMAIN lex.map

IsPrefix(a, b) == Len(a) <= Len(b) /\ SubSeq(b, 1, Len(a)) = a

\* one step keeps the arena stable
ArenaStableStep ==
    /\ \A i \in DOMAIN lexicon.vec :
           i \in DOMAIN lexicon'.vec /\ lexicon'.vec[i] = lexicon.vec[i]
    /\ \A v \in Views(lexicon) :
           /\ ValidView(lexicon.heap, v)
           /\ ValidView(lexicon'.heap, v)
           /\ Deref(lexicon'.heap, v) = Deref(lexicon.heap, v)
    /\ \A p \in DOMAIN lexicon.heap :
           /\ p \in DOMAIN lexicon'.heap
           /\ lexicon'.heap[p].live
           /\ IsPrefix(lexicon.heap[p].bytes, lexicon'.heap[p].bytes)
    /\ \A p \in DOMAIN lexicon'.heap :
           /\ Len(lexicon'.heap[p].bytes) <=
                  (IF p = lexicon'.buf.ptr THEN lexicon'.buf.cap ELSE 0) +
                  (IF p \in DOMAIN lexicon.heap
                   THEN Len(lexicon.heap[p].bytes) ELSE 0)
           /\ \/ p = lexicon'.buf.ptr
              \/ \E k \in DOMAIN lexicon'.all : lexicon'.all[k].ptr = p
    /\ lexicon'.buf.ptr # Dangling =>
           Len(lexicon'.heap[lexicon'.buf.ptr].bytes) <= lexicon'.buf.cap
    /\ IsPrefix(lexicon.all, lexicon'.all)
    /\ lexicon'.buf.ptr # lexicon.buf.ptr =>
           lexicon'.all = Append(lexicon.all, lexicon.buf)

\* C6: every interned string stays in the same buffer at the same offset
\* and length with the same bytes; bytes are only appended to the current
\* buffer within its capacity, so no buffer is reallocated; every replaced
\* buffer is kept in `all`, and no allocation is ever freed.
ArenaStable == [][ArenaStableStep]_vars

\* C6's case: strings live in two different retained or current buffers
ArenaStableWitness ==
    /\ Len(lexicon.all) >= 2
    /\ \E i, j \in DOMAIN lexicon.vec :
           /\ lexicon.vec[i].len > 0 /\ lexicon.vec[j].len > 0
           /\ lexicon.vec[i].ptr # lexicon.vec[j].ptr
    /\ \E t \in Threads : pc[t] = "lookup_use" /\ local[t].view.len > 0
                          /\ local[t].view.ptr # lexicon.buf.ptr

CriticalPcs == {"intern_alloc", "intern_insert", "intern_push"}

\* C7: the interner's critical sections exclude each other under the TERMS
\* lock: at most one thread is inside, it owns the lock, a lookup inside
\* sees map and vec agree and its Term recorded, and whatever the
\* interleaving equal trimmed strings got equal Terms, different strings
\* different Terms, and the identities issued are dense.
MutualExclusion ==
    /\ \A t, u \in Threads :
           (pc[t] \in CriticalPcs /\ pc[u] \in CriticalPcs) => t = u
    /\ \A t \in Threads : pc[t] \in CriticalPcs => mutex.owner = t
    /\ \A t \in Threads : pc[t] = "lookup_use" => ~local[t].partial
    /\ \A t \in Threads : pc[t] = "panicked" => mutex.poisoned
    /\ \A i, j \in DOMAIN hist :
           (hist[i].ret = hist[j].ret) <=>
               (Trim(hist[i].arg) = Trim(hist[j].arg))
    /\ \E n \in 0..Len(hist) : Issued = 0..(n - 1)

\* C7's case: one thread is inside Lexicon::intern while the other waits
\* for the lock to intern the same trimmed string
MutualExclusionWitness ==
    \E t, u \in Threads :
        /\ pc[t] = "intern_insert"
        /\ pc[u] = "intern_lock"
        /\ Trim(local[t].arg) = Trim(local[u].arg)
        /\ Len(hist) > 0

\* one step once the lock is poisoned
PoisonedStep ==
    mutex.poisoned =>
        /\ mutex'.poisoned
        /\ lexicon' = lexicon
        /\ hist' = hist
        /\ \A t \in Threads :
               pc[t] \in {"idle", "lookup_done"} =>
                   pc'[t] \in {pc[t], "intern_lock", "lookup_lock"}
        /\ \A t \in Threads :
               pc[t] \in {"intern_lock", "lookup_lock"} =>
                   pc'[t] \in {pc[t], "panicked"}

\* C8: once the TERMS lock is poisoned, every Term::intern and Term::lookup
\* call that reaches the lock panics: none returns a Term or a text and
\* none changes the Lexicon.
PoisonIsFatal == [][PoisonedStep]_vars

\* C8's case: a holder panicked, and the other thread's later call panicked
\* at the lock
PoisonIsFatalWitness ==
    /\ mutex.poisoned
    /\ \A t \in Threads : pc[t] = "panicked"
    /\ Len(hist) > 0

\* ------------------------------------------------------------------ C11..C13
\* C11: on an index as discovery left it, get_by_name(n) returns, for
\* every Asset stored under a key (n, flag), that very Asset, the one
\* get((n, flag)) returns.
NameLookupAgreesWithKeyLookup ==
    (found.op = "get_by_name" /\ dbpc = "discovered") =>
        \A k \in DOMAIN assets :
            k.name = found.query =>
                /\ found.some
                /\ found.asset = Get(assets, k).asset

\* the Asset stores a keyword whose text is the Term's up to ASCII case
StoresIgnoringCase(lex, asset, kw) ==
    \E i \in DOMAIN asset.keywords :
        Fold(TermText(lex, asset.keywords[i])) = Fold(TermText(lex, kw))

\* a filter_by_keywords step returns only Assets that a query Term
\* matches, by a keyword or by the name, be it up to ASCII case
FilterStep ==
    (found' # found /\ found'.op = "filter_by_keywords") =>
        \A k \in found'.hits :
            \E i \in DOMAIN found'.query :
                \/ StoresIgnoringCase(lexicon, assets[k], found'.query[i])
                \/ Fold(TermText(lexicon, found'.query[i])) = Fold(Trim(k.name))

\* C12: filter_by_keywords returns an Asset only if one of the query
\* Terms matches one of its keywords or its name; so on an undecorated
\* index a query of Terms that are no Asset's name returns nothing.
FilterNeedsMatch == [][FilterStep]_vars

\* C13: an Asset is matched by a query Term whenever one of its keywords
\* equals the Term ignoring ASCII case, not only when it is the same Term.
MatchIgnoresCase ==
    found.op = "has_keyword" =>
        (StoresIgnoringCase(lexicon, found.asset, found.query[1])
            => found.some)

\* ------------------------------------------------------------------ C14
\* the Terms an Asset stores
TermsOf(asset) == {asset.keywords[i] : i \in DOMAIN asset.keywords}

\* a step removes no Asset and no keyword of any Asset
MonotoneStep ==
    \A k \in DOMAIN assets :
        /\ k \in DOMAIN assets'
        /\ TermsOf(assets[k]) \subseteq TermsOf(assets'[k])

\* decorate_all run again right after decorate_all changes no Asset
IdempotentStep ==
    (dbpc \in {"decorated_all", "redecorated"} /\ dbpc' = "redecorated") =>
        assets' = assets

\* C14: decoration only adds: after every operation each Asset stores at
\* least the keywords it stored before; and decorate_all run a second
\* time with the same table leaves every Asset's keywords exactly as the
\* first run left them.
MonotoneIdempotent == [][MonotoneStep /\ IdempotentStep]_vars

\* C14's case: decorate_all ran twice in a row on Assets it gave keywords
MonotoneIdempotentWitness ==
    /\ dbpc = "redecorated"
    /\ \E k \in DOMAIN assets : Len(assets[k].keywords) >= 4

\* ------------------------------------------------------------------ C15
\* the Terms of ids from place i on that kws lacks, each once, in order
RECURSIVE FreshFrom(_, _, _)
FreshFrom(kws, ids, i) ==
    IF i > Len(ids) THEN <<>>
    ELSE (IF /\ \A j \in DOMAIN kws : kws[j] # ids[i]
             /\ \A j \in 1..(i - 1) : ids[j] # ids[i]
          THEN <<ids[i]>> ELSE <<>>) \o FreshFrom(kws, ids, i + 1)

\* the texts of the keywords an Asset stores, in their order
TextsOf(lex, asset) ==
    [i \in DOMAIN asset.keywords |-> TermText(lex, asset.keywords[i])]

\* a run_with(names, keywords) step: the Assets whose name is one of the
\* names up to ASCII case get the keywords they lack appended, the others
\* stay as they are
RunWithStep ==
    (dbpc \in Ready /\ dbpc' = "decorated" /\ found' = found) =>
        \A e \in TableEntries :
            RunWith(e) =>
                LET ids == InternIter(lexicon, e.kws).ids
                IN  /\ DOMAIN assets' = DOMAIN assets
                    /\ \A k \in DOMAIN assets :
                           IF \E n \in DOMAIN e.names :
                                  Fold(k.name) = Fold(e.names[n])
                           THEN assets'[k] =
                                    [assets[k] EXCEPT !.keywords =
                                        @ \o FreshFrom(@, ids, 1)]
                           ELSE assets'[k] = assets[k]

\* a filter_by_keywords step returns every Asset that stores a query Term
FilterFindsStep ==
    (found' # found /\ found'.op = "filter_by_keywords") =>
        \A k \in DOMAIN assets :
            (\E i \in DOMAIN found'.query :
                 found'.query[i] \in TermsOf(assets[k]))
                => k \in found'.hits

\* C15: one entry (names, keywords) appends the keywords, in list order
\* and skipping those present, to every Asset whose name equals one of
\* the names ignoring ASCII case, in every category, and to no other; a
\* query for one of the keywords then returns those Assets.
DecorationTargets == [][RunWithStep /\ FilterFindsStep]_vars

\* C15's case: the entry (["a"], ["x", "b"]) ran on the fresh Assets "a"
\* of two categories, which now store a, x, b, and on no other, and a
\* query for x returned them
DecorationTargetsWitness ==
    /\ found.op = "filter_by_keywords"
    /\ found.at = "decorated"
    /\ TermText(lexicon, found.query[1]) = <<"x">>
    /\ \E j, k, l \in DOMAIN assets :
           /\ j.flag # k.flag
           /\ j.name = <<"a">> /\ k.name = <<"a">>
           /\ TextsOf(lexicon, assets[j]) = << <<"a">>, <<"x">>, <<"b">> >>
           /\ TextsOf(lexicon, assets[k]) = << <<"a">>, <<"x">>, <<"b">> >>
           /\ TextsOf(lexicon, assets[l]) = << <<"b">> >>
           /\ j \in found.hits /\ k \in found.hits

\* ------------------------------------------------------------------ C16
\* the table's entries in the opposite order
Reversed(table) == [i \in DOMAIN table |-> table[Len(table) + 1 - i]]

\* the index after the entries of the table ran on the present one
Decorated(table) == RunTable([lex |-> lexicon, db |-> assets], table)

\* the texts an Asset stores, as a set
TextSetOf(lex, asset) ==
    {TermText(lex, asset.keywords[i]) : i \in DOMAIN asset.keywords}

\* C16 as stated: whichever order the entries run in, every Asset ends
\* with the same stored collection of keywords, the texts in the same
\* insertion order.
OrderIndependent ==
    dbpc \in Ready =>
        LET one == Decorated(Table)
            two == Decorated(Reversed(Table))
        IN  /\ DOMAIN one.db = DOMAIN two.db
            /\ \A k \in DOMAIN assets :
                   TextsOf(one.lex, one.db[k]) = TextsOf(two.lex, two.db[k])

\* C16, amended: whichever order the entries run in, every Asset ends
\* with the same keywords as a set of texts, each stored once; the order
\* they are stored in is the order they were added in.
OrderIndependentAsSets ==
    dbpc \in Ready =>
        LET one == Decorated(Table)
            two == Decorated(Reversed(Table))
        IN  /\ DOMAIN one.db = DOMAIN two.db
            /\ \A k \in DOMAIN assets :
                   /\ TextSetOf(one.lex, one.db[k])
                          = TextSetOf(two.lex, two.db[k])
                   /\ Cardinality(TermsOf(one.db[k]))
                          = Len(one.db[k].keywords)
                   /\ Cardinality(TermsOf(two.db[k]))
                          = Len(two.db[k].keywords)

\* C16's case: an index on which the two orders store different
\* collections for some Asset
OrderIndependentWitness ==
    /\ dbpc \in Ready
    /\ LET one == Decorated(Table)
           two == Decorated(Reversed(Table))
       IN  \E k \in DOMAIN assets :
               /\ TextsOf(one.lex, one.db[k]) # TextsOf(two.lex, two.db[k])
               /\ Len(one.db[k].keywords) >= 4

\* ------------------------------------------------------------------ C17
\* C17: in every state of the index, after discovery, run_with and
\* decorate_all runs, add_keyword calls and queries, every Asset stores
\* the Term its name interns to, and stores no Term twice.
OwnNameKept ==
    \A k \in DOMAIN assets :
        /\ TermIntern(lexicon, k.name).lex = lexicon
        /\ TermIntern(lexicon, k.name).id \in TermsOf(assets[k])
        /\ Cardinality(TermsOf(assets[k])) = Len(assets[k].keywords)

\* C17's case: the Asset "b" was given its own name as a keyword by an
\* entry, which was skipped, then x by add_keyword, and was queried after
OwnNameKeptWitness ==
    /\ found.op = "get_by_name"
    /\ found.at = "decorated"
    /\ \E k \in DOMAIN assets :
           /\ k.name = <<"b">>
           /\ TextsOf(lexicon, assets[k]) = << <<"b">>, <<"X">>, <<"x">> >>

\* ------------------------------------------------------------------ C18
\* C18: handle_for runs discover, decorate, query, write in this order:
\* the query it answers is answered on an index decorate_all has run on,
\* and what it writes is what that query found.
PipelineOrder ==
    /\ found.op = "get_by_names" =>
           found.at \in {"decorated_all", "redecorated"}
    /\ dbpc \in {"hf_queried", "hf_written", "hf_failed"} =>
           found.op = "get_by_names" /\ found.list # <<>>

\* ------------------------------------------------------------------ C19
\* C19: walk_assets run again in the same process, in whatever order the
\* directories yield their entries, builds an index with the same keys
\* and, under every key, the same keywords as the first run built.
DiscoveryDeterministic ==
    dbpc = "discovered" =>
        \A order \in ReadDirOrders(corpus) :
            LET again == WalkAll([lex |-> lexicon, db |-> <<>>], order)
            IN  /\ DOMAIN again.db = DOMAIN assets
                /\ \A k \in DOMAIN assets :
                       again.db[k].keywords = assets[k].keywords

\* C19's case: two files of the corpus derive the same key, and another
\* enumeration order leaves another file under it
DiscoveryDeterministicWitness ==
    /\ dbpc = "discovered"
    /\ \E d, e \in corpus :
           /\ d # e
           /\ d.is_file /\ IsGitignoreFile(d.name)
           /\ e.is_file /\ IsGitignoreFile(e.name)
           /\ d.flag = e.flag
           /\ TrimEndMatches(d.name) = TrimEndMatches(e.name)
    /\ \E order \in ReadDirOrders(corpus) :
           WalkAll([lex |-> lexicon, db |-> <<>>], order).db # assets

\* ------------------------------------------------------------------ C20
\* a query step changes no Asset and registers no string
QueryStep ==
    (/\ found' # found
     /\ found'.op \in {"get_by_name", "get_by_names", "filter_by_keywords"})
        => /\ assets' = assets
           /\ lexicon' = lexicon

\* C20: get_by_name, get_by_names and filter_by_keywords on an index that
\* discovery built, decorated or not, leave every Asset (key, git_ignore,
\* keywords) and the interner as they were, though filter_by_keywords
\* interns every Asset's name again.
QueriesReadOnly == [][QueryStep]_vars

\* C20's case: filter_by_keywords ran on an undecorated index that holds
\* an Asset whose name is interned trimmed
QueriesReadOnlyWitness ==
    /\ found.op = "filter_by_keywords"
    /\ found.at = "discovered"
    /\ \E j, k \in DOMAIN assets : j # k /\ k.name # Trim(k.name)

\* C20's other cases: get_by_names found two Assets on a decorated index
QueriesReadOnlyDecoratedWitness ==
    /\ found.op = "get_by_names"
    /\ found.at = "decorated"
    /\ Len(found.list) = 2

\* ------------------------------------------------------------------ C21, C22
\* a directory entry walk_assets makes an Asset of
IsTemplate(e) == e.is_file /\ IsGitignoreFile(e.name)

\* the key it stores that Asset under
KeyOf(e) == [name |-> TrimEndMatches(e.name), flag |-> e.flag]

\* the places in the walk of the files that derive the key
PlacesOf(k) ==
    {i \in DOMAIN walked : IsTemplate(walked[i]) /\ KeyOf(walked[i]) = k}

\* C21: when several files of one category derive the same key, the
\* Asset kept under it is the one of the file walk_assets read first: its
\* git_ignore names that file, the later files are dropped.
FirstFileKept ==
    dbpc = "discovered" =>
        \A k \in DOMAIN assets :
            \A i \in PlacesOf(k) :
                (\A j \in PlacesOf(k) : i <= j)
                    => assets[k].git_ignore.name = walked[i].name

\* C22: the key's name is the file name with the suffix stripped once, so
\* the name followed by the suffix is the file name git_ignore records,
\* and files of one category with different names get different keys.
SuffixStrippedOnce ==
    dbpc = "discovered" =>
        /\ \A k \in DOMAIN assets :
               k.name \o <<Suffix>> = assets[k].git_ignore.name
        /\ \A d, e \in corpus :
               (/\ IsTemplate(d) /\ IsTemplate(e)
                /\ d.flag = e.flag /\ d.name # e.name)
                   => KeyOf(d) # KeyOf(e)

\* ------------------------------------------------------------------ C23
\* an alloc step of thread t: when buf's spare capacity cannot hold the
\* string, buf becomes a new buffer that was empty, of at least twice the
\* capacity and at least the string's length, and the old buf is pushed
\* onto `all`; when it can, buf stays the buffer it was
AllocStepOf(t) ==
    (pc[t] = "intern_alloc" /\ pc'[t] = "intern_insert") =>
        LET s   == InternArg(local[t].arg)
            old == lexicon.buf
            new == lexicon'.buf
        IN  IF old.cap - old.len < Len(s)
            THEN /\ new.cap >= 2 * old.cap
                 /\ new.cap >= Len(s)
                 /\ new.ptr # old.ptr
                 /\ new.len = Len(s)
                 /\ local'[t].view.start = 0
                 /\ lexicon'.all = Append(lexicon.all, old)
                 /\ Len(lexicon'.heap) = Len(lexicon.heap) + 1
            ELSE /\ new.cap = old.cap
                 /\ new.ptr = old.ptr
                 /\ new.len = old.len + Len(s)
                 /\ lexicon'.all = lexicon.all
                 /\ lexicon'.heap = IF Len(s) = 0 THEN lexicon.heap
                                    ELSE [lexicon.heap EXCEPT
                                             ![old.ptr].bytes = @ \o s]

\* C23: Lexicon::alloc replaces buf exactly when its remaining capacity
\* cannot hold the string: by a new empty buffer of at least double the
\* capacity and at least the string's length, the old one pushed onto
\* `all`; a string that fits is appended to buf and nothing is allocated.
ArenaGrowth == [][\A t \in Threads : AllocStepOf(t)]_vars

\* C23's case: buf was replaced when it had a capacity, after a string
\* had fitted into it
ArenaGrowthWitness ==
    /\ Len(lexicon.all) >= 2
    /\ lexicon.all[2].cap > 0
    /\ lexicon.all[2].len = lexicon.all[2].cap
    /\ lexicon.buf.cap = 2 * lexicon.all[2].cap
    /\ Len(lexicon.vec) >= 3

====
